---- MODULE Spec2Model ----
(***************************************************************************)
(* Model of the DetoxBuddy focus-session engine:                           *)
(*   core/focus_timer.py            FocusTimer (manager, cache, jobs)      *)
(*   database/crud/focus_session.py CRUDFocusSession (storage transitions) *)
(* Time is counted in whole minutes, the unit of every int(seconds / 60)   *)
(* in the source.  Coroutine callbacks are split at                        *)
(* their awaits on the notifier: between two steps of one callback any     *)
(* other handler may run on the event loop.                                *)
(***************************************************************************)
EXTENDS Integers, Sequences, FiniteSets, TLC

\* ------------------------------------------------------------------ bounds
Users == {1}
Durations == {2, 11}
MaxTime == 5
MaxSessions == 1
MaxTasks == 1
CycleUsers == {1}
CycleDurations == {1}
MaxCycleTime == 4
MaxCycleSessions == 8
MaxCrudTime == 2
MaxCrudSessions == 2
CrudUsers == {1}
CrudDurations == {1}
SessionTypes == {"FOCUS", "SHORT_BREAK", "LONG_BREAK"}

\* ------------------------------------------------------- program constants
short_break_duration == 5
long_break_duration == 15
sessions_before_long_break == 4
ProgressStep == 5

NoTime == -1

VARIABLES
    now,              \* the clock, in minutes
    sessions,         \* storage: sequence of FocusSession rows, id = index
    active_sessions,  \* FocusTimer.active_sessions: user_id -> session_info
    jobs,             \* pending jobs of the AsyncIOScheduler
    tasks,            \* callbacks suspended on a notifier await
    last,             \* the operation that produced the current state
    reminders,        \* storage: sequence of Reminder rows, id = index
    rjobs,            \* pending jobs of the ReminderScheduler's job store
    rtasks,           \* _send_reminder calls waiting for the notifier
    outbox            \* reminder id -> messages handed to the notifier

vars == <<now, sessions, active_sessions, jobs, tasks, last,
          reminders, rjobs, rtasks, outbox>>

\* the focus-session engine's state and the reminder manager's state
fvars == <<sessions, active_sessions, jobs, tasks>>
rvars == <<reminders, rjobs, rtasks, outbox>>

Max(a, b) == IF a >= b THEN a ELSE b

Op(op, user, sid) == [op |-> op, user |-> user, sid |-> sid]

\* ----------------------------------------------------- storage (CRUD layer)
NewSession(user_id, session_type, duration_minutes) ==
    [user_id |-> user_id, session_type |-> session_type, status |-> "PLANNED",
     planned_duration |-> duration_minutes, actual_duration |-> NoTime,
     paused_duration |-> 0, actual_start |-> NoTime, actual_end |-> NoTime,
     last_pause_start |-> NoTime]

Exists(S, sid) == sid \in 1..Len(S)

\* first ACTIVE or PAUSED row of the user, 0 when there is none
get_active_session(S, user_id) ==
    LET hits == {i \in 1..Len(S) : /\ S[i].user_id = user_id
                                   /\ S[i].status \in {"ACTIVE", "PAUSED"}}
    IN IF hits = {} THEN 0 ELSE CHOOSE i \in hits : \A k \in hits : i <= k

create_focus_session(S, user_id, session_type, duration_minutes) ==
    Append(S, NewSession(user_id, session_type, duration_minutes))

crud_start_ok(S, sid) == Exists(S, sid) /\ S[sid].status = "PLANNED"
crud_start_session(S, sid, t) ==
    IF crud_start_ok(S, sid)
    THEN [S EXCEPT ![sid].status = "ACTIVE", ![sid].actual_start = t]
    ELSE S

\* a pause that is accepted whatever the status of the session
crud_pause_ok_whatever_status(S, sid) == Exists(S, sid)

crud_pause_ok(S, sid) == Exists(S, sid) /\ S[sid].status = "ACTIVE"
crud_pause_session(S, sid, t) ==
    IF crud_pause_ok(S, sid)
    THEN [S EXCEPT ![sid].status = "PAUSED", ![sid].last_pause_start = t]
    ELSE S

crud_resume_ok(S, sid) == Exists(S, sid) /\ S[sid].status = "PAUSED"
crud_resume_session(S, sid, t) ==
    IF crud_resume_ok(S, sid)
    THEN [S EXCEPT ![sid].paused_duration =
                       IF S[sid].last_pause_start # NoTime
                       THEN @ + (t - S[sid].last_pause_start) ELSE @,
                   ![sid].status = "ACTIVE",
                   ![sid].last_pause_start = NoTime]
    ELSE S

crud_complete_ok(S, sid) ==
    Exists(S, sid) /\ S[sid].status \in {"ACTIVE", "PAUSED"}
crud_complete_session(S, sid, t) ==
    IF crud_complete_ok(S, sid)
    THEN [S EXCEPT ![sid].status = "COMPLETED",
                   ![sid].actual_end = t,
                   ![sid].actual_duration =
                       IF S[sid].actual_start # NoTime
                       THEN t - S[sid].actual_start ELSE @]
    ELSE S

\* FocusSession.calculate_completion_rate: the float
\* min(100.0, actual_duration / planned_duration * 100) as the exact
\* fraction num / den, and 0.0 when either duration is None or 0
calculate_completion_rate(r) ==
    IF r.actual_duration = NoTime \/ r.actual_duration = 0
          \/ r.planned_duration = 0
    THEN [num |-> 0, den |-> 1]
    ELSE [num |-> IF r.actual_duration >= r.planned_duration
                  THEN 100 * r.planned_duration
                  ELSE 100 * r.actual_duration,
          den |-> r.planned_duration]

crud_cancel_ok(S, sid) == Exists(S, sid) /\ S[sid].status # "COMPLETED"
crud_cancel_session(S, sid, t) ==
    IF crud_cancel_ok(S, sid)
    THEN [S EXCEPT ![sid].status = "CANCELLED", ![sid].actual_end = t]
    ELSE S

\* ------------------------------------------------------------ scheduler jobs
Job(kind, user, sid, i, run_date, total) ==
    [kind |-> kind, user |-> user, sid |-> sid, i |-> i,
     run_date |-> run_date, total |-> total]

JobId(j) == <<j.kind, j.user, j.sid, j.i>>

\* scheduler.add_job(..., replace_existing=True)
add_job(J, j) == {x \in J : JobId(x) # JobId(j)} \cup {j}

\* a removal that goes by the user, the session and the index of the id
\* and takes the job whatever its kind
remove_job_of_any_kind(J, id) ==
    {x \in J : ~(x.user = id[2] /\ x.sid = id[3] /\ x.i = id[4])}

\* scheduler.remove_job(id); a missing id raises and the callers swallow it
remove_job(J, id) == {x \in J : JobId(x) # id}

\* the marks with the last minute of the session included
ProgressMarks_to_the_end(duration_minutes) ==
    {i \in 1..duration_minutes : i % ProgressStep = 0}

\* range(5, duration_minutes, 5)
ProgressMarks(duration_minutes) ==
    {i \in 1..duration_minutes :
        i % ProgressStep = 0 /\ i >= ProgressStep /\ i < duration_minutes}

_schedule_progress_notifications(J, user_id, duration_minutes, session_id, t) ==
    {x \in J : ~(/\ x.kind = "progress" /\ x.user = user_id
                 /\ x.sid = session_id /\ x.i \in ProgressMarks(duration_minutes))}
    \cup {Job("progress", user_id, session_id, i, t + i, duration_minutes) :
             i \in ProgressMarks(duration_minutes)}

\* job.id.startswith(f"progress_{user_id}_{session_id}_")
_remove_progress_notifications(J, user_id, session_id) ==
    {x \in J : ~(x.kind = "progress" /\ x.user = user_id /\ x.sid = session_id)}

\* f"_{user_id}_" in job.id : the user field of every id is enclosed in
\* underscores, and so is the session field of a progress id
IdContainsUser(j, user_id) ==
    \/ j.user = user_id
    \/ j.kind = "progress" /\ j.sid = user_id

\* a purge that stops the progress pings only and keeps the completion jobs
_remove_user_notifications_pings_only(J, user_id) ==
    {x \in J : ~(x.kind = "progress" /\ IdContainsUser(x, user_id))}

_remove_user_notifications(J, user_id) ==
    {x \in J : ~IdContainsUser(x, user_id)}

\* ------------------------------------------------------ active-session cache
SessionInfo(session_id, start_time, duration_minutes, session_type) ==
    [session_id |-> session_id, start_time |-> start_time,
     duration_minutes |-> duration_minutes, session_type |-> session_type,
     sessions_completed |-> 0]

InCache(A, user_id) == user_id \in DOMAIN A
CachePut(A, user_id, info) == (user_id :> info) @@ A
CacheDel(A, user_id) == [x \in (DOMAIN A) \ {user_id} |-> A[x]]

Init ==
    /\ now = 0
    /\ sessions = <<>>
    /\ active_sessions = <<>>
    /\ jobs = {}
    /\ tasks = {}
    /\ last = Op("init", 0, 0)
    /\ reminders = <<>>
    /\ rjobs = {}
    /\ rtasks = {}
    /\ outbox = <<>>

\* ------------------------------------------------- FocusTimer: user requests
\* what start_focus_session hands back to its caller: 0 stands for None,
\* the only failure signal its caller tests
start_focus_session_result(user_id) ==
    LET active == get_active_session(sessions, user_id)
    IN IF active # 0 THEN active ELSE Len(sessions) + 1

start_focus_session(user_id, duration_minutes) ==
    LET active == get_active_session(sessions, user_id)
        sid == Len(sessions) + 1
        created == create_focus_session(sessions, user_id, "FOCUS", duration_minutes)
    IN IF active # 0
       THEN UNCHANGED vars
       ELSE /\ sessions' = crud_start_session(created, sid, now)
            /\ active_sessions' =
                 CachePut(active_sessions, user_id,
                          SessionInfo(sid, now, duration_minutes, "FOCUS"))
            /\ jobs' = _schedule_progress_notifications(
                          add_job(jobs, Job("focus_complete", user_id, sid, 0,
                                            now + duration_minutes, 0)),
                          user_id, duration_minutes, sid, now)
            /\ last' = Op("start", user_id, start_focus_session_result(user_id))
            /\ UNCHANGED <<now, tasks>>

pause_session(user_id) ==
    IF ~InCache(active_sessions, user_id)
    THEN UNCHANGED vars
    ELSE LET session_info == active_sessions[user_id]
             sid == session_info.session_id
         IN IF crud_pause_ok(sessions, sid)
            THEN /\ sessions' = crud_pause_session(sessions, sid, now)
                 /\ jobs' = _remove_progress_notifications(
                               remove_job(jobs, <<"focus_complete", user_id, sid, 0>>),
                               user_id, sid)
                 /\ last' = Op("pause", user_id, sid)
                 /\ UNCHANGED <<now, active_sessions, tasks>>
            ELSE UNCHANGED vars

resume_session(user_id) ==
    IF ~InCache(active_sessions, user_id)
    THEN UNCHANGED vars
    ELSE LET session_info == active_sessions[user_id]
             sid == session_info.session_id
             elapsed_time == now - session_info.start_time
             remaining_minutes == Max(0, session_info.duration_minutes - elapsed_time)
         IN IF crud_resume_ok(sessions, sid)
            THEN /\ sessions' = crud_resume_session(sessions, sid, now)
                 /\ jobs' = IF remaining_minutes > 0
                            THEN _schedule_progress_notifications(
                                    add_job(jobs, Job("focus_complete", user_id, sid, 0,
                                                      now + remaining_minutes, 0)),
                                    user_id, remaining_minutes, sid, now)
                            ELSE jobs
                 /\ last' = Op("resume", user_id, sid)
                 /\ UNCHANGED <<now, active_sessions, tasks>>
            ELSE UNCHANGED vars

\* cancel_session, entered for the request called op
cancel_session_as(user_id, op) ==
    IF ~InCache(active_sessions, user_id)
    THEN UNCHANGED vars
    ELSE LET session_info == active_sessions[user_id]
             sid == session_info.session_id
         IN IF crud_cancel_ok(sessions, sid)
            THEN /\ sessions' = crud_cancel_session(sessions, sid, now)
                 /\ jobs' = _remove_progress_notifications(
                               remove_job(jobs, <<"focus_complete", user_id, sid, 0>>),
                               user_id, sid)
                 /\ active_sessions' = CacheDel(active_sessions, user_id)
                 /\ last' = Op(op, user_id, sid)
                 /\ UNCHANGED <<now, tasks>>
            ELSE UNCHANGED vars

cancel_session(user_id) == cancel_session_as(user_id, "cancel")

\* TelegramBot._complete_focus_session, the handler of the button that ends
\* a session early: it calls focus_timer.cancel_session(user_id)
bot_complete_focus_session(user_id) ==
    cancel_session_as(user_id, "complete_request")

\* -------------------------------------------- FocusTimer: timer callbacks
Task(kind, user, pc, sessions_completed) ==
    [kind |-> kind, user |-> user, pc |-> pc,
     sessions_completed |-> sessions_completed]

Due(j) == j \in jobs /\ j.run_date <= now

\* _complete_focus_session up to its first await (the completion notice)
_complete_focus_session(user_id) ==
    IF ~InCache(active_sessions, user_id)
    THEN UNCHANGED <<sessions, active_sessions, tasks>>
    ELSE LET session_info == active_sessions[user_id]
             sid == session_info.session_id
         IN IF crud_complete_ok(sessions, sid)
            THEN /\ sessions' = crud_complete_session(sessions, sid, now)
                 /\ active_sessions' =
                      [active_sessions EXCEPT ![user_id].sessions_completed = @ + 1]
                 /\ tasks' = tasks \cup
                      {Task("focus", user_id, "notify",
                            session_info.sessions_completed + 1)}
            ELSE UNCHANGED <<sessions, active_sessions, tasks>>

\* _start_short_break / _start_long_break up to the await on the break notice
_start_break(user_id, session_type, duration_minutes) ==
    LET sid == Len(sessions) + 1
        created == create_focus_session(sessions, user_id, session_type,
                                        duration_minutes)
    IN /\ sessions' = crud_start_session(created, sid, now)
       /\ active_sessions' =
            CachePut(active_sessions, user_id,
                     SessionInfo(sid, now, duration_minutes, session_type))
       /\ jobs' = add_job(jobs, Job("break_complete", user_id, sid, 0,
                                    now + duration_minutes, 0))

\* _complete_focus_session after the completion notice returned (whatever
\* the notifier said: _send_session_complete_notification swallows it)
_complete_focus_session_break(t) ==
    /\ IF t.sessions_completed % sessions_before_long_break = 0
       THEN _start_break(t.user, "LONG_BREAK", long_break_duration)
       ELSE _start_break(t.user, "SHORT_BREAK", short_break_duration)
    /\ tasks' = (tasks \ {t}) \cup {[t EXCEPT !.pc = "break_notify"]}
    /\ last' = Op("focus_start_break", t.user, Len(sessions) + 1)

\* _complete_focus_session after the break notice returned:
\* del self.active_sessions[user_id] (a KeyError is caught and logged)
_complete_focus_session_end(t) ==
    /\ active_sessions' = CacheDel(active_sessions, t.user)
    /\ tasks' = tasks \ {t}
    /\ last' = Op("focus_complete_done", t.user, 0)
    /\ UNCHANGED <<sessions, jobs>>

\* _complete_break_session up to its await
_complete_break_session(user_id) ==
    /\ UNCHANGED active_sessions
    /\ IF ~InCache(active_sessions, user_id)
       THEN UNCHANGED <<sessions, tasks>>
       ELSE LET sid == active_sessions[user_id].session_id
            IN IF crud_complete_ok(sessions, sid)
               THEN /\ sessions' = crud_complete_session(sessions, sid, now)
                    /\ tasks' = tasks \cup {Task("break", user_id, "notify", 0)}
               ELSE UNCHANGED <<sessions, tasks>>

\* _complete_break_session after the await
_complete_break_session_end(t) ==
    /\ active_sessions' = CacheDel(active_sessions, t.user)
    /\ tasks' = tasks \ {t}
    /\ last' = Op("break_complete_done", t.user, 0)
    /\ UNCHANGED <<sessions, jobs>>

\* _send_progress_notification after the notifier answered:
\*   "ok"      a message object
\*   "blocked" None (send_message maps blocked / chat not found / forbidden)
\*   "error"   any other exception, re-raised by send_message
_send_progress_notification(t, result) ==
    /\ tasks' = tasks \ {t}
    /\ last' = Op("progress_" \o result, t.user, 0)
    /\ UNCHANGED sessions
    /\ CASE result = "ok" -> UNCHANGED <<jobs, active_sessions>>
         [] result = "blocked" ->
              /\ jobs' = _remove_user_notifications(jobs, t.user)
              /\ active_sessions' = CacheDel(active_sessions, t.user)
         [] result = "error" ->
              /\ jobs' = _remove_user_notifications(jobs, t.user)
              /\ UNCHANGED active_sessions

\* the scheduler submits a due job: a date-triggered job leaves the job
\* store and its callback runs up to its first await
RunJob(j) ==
    /\ Due(j)
    /\ jobs' = jobs \ {j}
    /\ last' = Op("run_" \o j.kind, j.user, j.sid)
    /\ UNCHANGED now
    /\ CASE j.kind = "focus_complete" -> _complete_focus_session(j.user)
         [] j.kind = "break_complete" -> _complete_break_session(j.user)
         [] j.kind = "progress" ->
              \* nothing but the message text precedes the await
              /\ tasks' = tasks \cup {Task("progress", j.user, "send", 0)}
              /\ UNCHANGED <<sessions, active_sessions>>

CreatesSession(t) == t.kind = "focus" /\ t.pc = "notify"

\* the event loop resumes a callback whose notifier call returned
ResumeTask(t, result) ==
    /\ t \in tasks
    /\ UNCHANGED now
    /\ CASE t.kind = "focus" /\ t.pc = "notify" -> _complete_focus_session_break(t)
         [] t.kind = "focus" /\ t.pc = "break_notify" -> _complete_focus_session_end(t)
         [] t.kind = "break" -> _complete_break_session_end(t)
         [] t.kind = "progress" -> _send_progress_notification(t, result)

\* ------------------------------------------------------------ process restart
\* get_user_sessions(db, user_id=None, status=None, limit): the rows of all
\* users ordered by created_at descending, cut after the first limit rows
get_user_sessions(S, limit) == {i \in 1..Len(S) : i > Len(S) - limit}

\* the limit _restore_active_sessions passes to get_user_sessions
restore_limit == 100

\* among several ACTIVE/PAUSED rows of one user in the result, the oldest is
\* written to the cache last
_restore_active_sessions(S) ==
    LET rows == get_user_sessions(S, restore_limit)
        live(u) == {i \in rows : /\ S[i].user_id = u
                                 /\ S[i].status \in {"ACTIVE", "PAUSED"}}
        owners == {S[i].user_id : i \in {k \in rows :
                                           S[k].status \in {"ACTIVE", "PAUSED"}}}
        oldest(u) == CHOOSE i \in live(u) : \A k \in live(u) : i <= k
    IN [u \in owners |->
          SessionInfo(oldest(u), S[oldest(u)].actual_start,
                      S[oldest(u)].planned_duration, S[oldest(u)].session_type)]

\* the process stops and is started again: the scheduler (in-memory job
\* store) and the suspended callbacks are gone, the cache is rebuilt
Restart ==
    /\ jobs' = {}
    /\ tasks' = {}
    /\ active_sessions' = _restore_active_sessions(sessions)
    /\ last' = Op("restart", 0, 0)
    /\ UNCHANGED <<now, sessions>>

\* the clock advances when no pending job is due
Tick ==
    /\ \A j \in jobs : j.run_date > now
    /\ now' = now + 1
    /\ last' = Op("tick", 0, 0)
    /\ UNCHANGED <<sessions, active_sessions, jobs, tasks>>

Results == {"ok", "blocked", "error"}

\* the rows the requests store are bounded; the break a completion chains
\* may be one row more
Next ==
    \/ \E u \in Users, d \in Durations :
          Len(sessions) < MaxSessions /\ start_focus_session(u, d) /\ UNCHANGED rvars
    \/ \E u \in Users : pause_session(u) /\ UNCHANGED rvars
    \/ \E u \in Users : resume_session(u) /\ UNCHANGED rvars
    \/ \E u \in Users : cancel_session(u) /\ UNCHANGED rvars
    \/ \E j \in jobs : Cardinality(tasks) < MaxTasks /\ RunJob(j) /\ UNCHANGED rvars
    \/ \E t \in tasks, r \in Results :
          /\ CreatesSession(t) => Len(sessions) < MaxSessions + 1
          /\ ResumeTask(t, r)
          /\ UNCHANGED rvars
    \/ Restart /\ UNCHANGED rvars
    \/ now < MaxTime /\ Tick /\ UNCHANGED rvars

Spec == Init /\ [][Next]_vars

\* the Pomodoro cycle: repeated short FOCUS sessions of one user, each ended
\* by its timer, with the restarts and cancels that let the next one start
NextCycle ==
    \/ \E u \in CycleUsers, d \in CycleDurations :
          Len(sessions) < MaxCycleSessions /\ start_focus_session(u, d) /\ UNCHANGED rvars
    \/ \E u \in CycleUsers : cancel_session(u) /\ UNCHANGED rvars
    \/ \E j \in jobs : Cardinality(tasks) < MaxTasks /\ RunJob(j) /\ UNCHANGED rvars
    \/ \E t \in tasks, r \in Results :
          /\ CreatesSession(t) => Len(sessions) < MaxCycleSessions
          /\ ResumeTask(t, r)
          /\ UNCHANGED rvars
    \/ Restart /\ UNCHANGED rvars
    \/ now < MaxCycleTime /\ Tick /\ UNCHANGED rvars

SpecCycle == Init /\ [][NextCycle]_vars

\* ------------------------------------------------- the storage layer alone
\* The CRUD object is a module-level singleton: each of its transitions is
\* callable with any session id.  A call that returns None changes nothing.
CrudCreate(user_id, session_type, duration_minutes) ==
    /\ sessions' = create_focus_session(sessions, user_id, session_type,
                                        duration_minutes)
    /\ last' = Op("crud_create", user_id, Len(sessions) + 1)
    /\ UNCHANGED <<now, active_sessions, jobs, tasks>>

CrudCall(name, ok, after, sid) ==
    /\ ok
    /\ sessions' = after
    /\ last' = Op(name, sessions[sid].user_id, sid)
    /\ UNCHANGED <<now, active_sessions, jobs, tasks>>

CrudStart(sid) ==
    CrudCall("crud_start", crud_start_ok(sessions, sid),
             crud_start_session(sessions, sid, now), sid)
CrudPause(sid) ==
    CrudCall("crud_pause", crud_pause_ok(sessions, sid),
             crud_pause_session(sessions, sid, now), sid)
CrudResume(sid) ==
    CrudCall("crud_resume", crud_resume_ok(sessions, sid),
             crud_resume_session(sessions, sid, now), sid)
CrudComplete(sid) ==
    CrudCall("crud_complete", crud_complete_ok(sessions, sid),
             crud_complete_session(sessions, sid, now), sid)
CrudCancel(sid) ==
    CrudCall("crud_cancel", crud_cancel_ok(sessions, sid),
             crud_cancel_session(sessions, sid, now), sid)

NextCrud ==
    \/ \E u \in CrudUsers, ty \in SessionTypes, d \in CrudDurations :
          Len(sessions) < MaxCrudSessions /\ CrudCreate(u, ty, d) /\ UNCHANGED rvars
    \/ \E sid \in 1..Len(sessions) : CrudStart(sid) /\ UNCHANGED rvars
    \/ \E sid \in 1..Len(sessions) : CrudPause(sid) /\ UNCHANGED rvars
    \/ \E sid \in 1..Len(sessions) : CrudResume(sid) /\ UNCHANGED rvars
    \/ \E sid \in 1..Len(sessions) : CrudComplete(sid) /\ UNCHANGED rvars
    \/ \E sid \in 1..Len(sessions) : CrudCancel(sid) /\ UNCHANGED rvars
    \/ now < MaxCrudTime /\ Tick /\ UNCHANGED rvars

SpecCrud == Init /\ [][NextCrud]_vars

\* --------------------------------------------------- two users of the timer
\* sessions whose length is a multiple of the ping step, started by two
\* users, so that the ids of one user's sessions are the other's user id
MultiUsers == {1, 2}
MultiDurations == {5, 10}
MaxMultiTime == 5
MaxMultiSessions == 2

NextMulti ==
    \/ \E u \in MultiUsers, d \in MultiDurations :
          Len(sessions) < MaxMultiSessions /\ start_focus_session(u, d) /\ UNCHANGED rvars
    \/ \E u \in MultiUsers : cancel_session(u) /\ UNCHANGED rvars
    \/ \E j \in jobs : Cardinality(tasks) < MaxTasks /\ RunJob(j) /\ UNCHANGED rvars
    \/ \E t \in tasks, r \in Results :
          /\ CreatesSession(t) => Len(sessions) < MaxMultiSessions + 1
          /\ ResumeTask(t, r)
          /\ UNCHANGED rvars
    \/ now < MaxMultiTime /\ Tick /\ UNCHANGED rvars

SpecMulti == Init /\ [][NextMulti]_vars

\* ------------------------------------------------- ending a session early
\* one user who starts, pauses and resumes sessions and ends them with the
\* button, while the timer ends those that run to their time
CompleteDurations == {2}
MaxCompleteTime == 3
MaxCompleteSessions == 2

NextComplete ==
    \/ \E u \in Users, d \in CompleteDurations :
          Len(sessions) < MaxCompleteSessions /\ start_focus_session(u, d) /\ UNCHANGED rvars
    \/ \E u \in Users : pause_session(u) /\ UNCHANGED rvars
    \/ \E u \in Users : resume_session(u) /\ UNCHANGED rvars
    \/ \E u \in Users : bot_complete_focus_session(u) /\ UNCHANGED rvars
    \/ \E j \in jobs : Cardinality(tasks) < MaxTasks /\ RunJob(j) /\ UNCHANGED rvars
    \/ \E t \in tasks, r \in Results :
          /\ CreatesSession(t) => Len(sessions) < MaxCompleteSessions + 1
          /\ ResumeTask(t, r)
          /\ UNCHANGED rvars
    \/ now < MaxCompleteTime /\ Tick /\ UNCHANGED rvars

SpecComplete == Init /\ [][NextComplete]_vars

\* ------------------------------------------- jobs that outlive their session
\* one user who starts and cancels 1-minute sessions over the length of a
\* short break, so that a job can fire after its session has ended
StaleDurations == {1}
MaxStaleTime == 6
MaxStaleSessions == 3

NextStale ==
    \/ \E u \in Users, d \in StaleDurations :
          Len(sessions) < MaxStaleSessions /\ start_focus_session(u, d) /\ UNCHANGED rvars
    \/ \E u \in Users : cancel_session(u) /\ UNCHANGED rvars
    \/ \E j \in jobs : Cardinality(tasks) < MaxTasks /\ RunJob(j) /\ UNCHANGED rvars
    \/ \E t \in tasks, r \in Results :
          /\ CreatesSession(t) => Len(sessions) < MaxStaleSessions + 1
          /\ ResumeTask(t, r)
          /\ UNCHANGED rvars
    \/ now < MaxStaleTime /\ Tick /\ UNCHANGED rvars

SpecStale == Init /\ [][NextStale]_vars

\* =========================================================== the reminders
\* ------------------------------------------------------------------ bounds
RUsers == {1}
MaxRTime == 3
MaxReminders == 1
MaxRTasks == 1
MaxWorkerTime == 1
MaxWorkerReminders == 1
MaxDispatches == 2
Delays == {0, 1}
Slots == {0, 1}
WeekdayLists == {<<>>, <<1>>}

\* the calendar: the clock counts minutes and a day has DayLen of them
DayLen == 2
DaysPerWeek == 7
misfire_grace_time == 5

TimeOfDay(t) == t % DayLen
DayOf(t) == t \div DayLen
Weekday(t) == DayOf(t) % DaysPerWeek
AtSlot(day, slot) == day * DayLen + slot

\* ------------------------------------------------- storage: Reminder rows
\* None is written 0 for repeat_interval and max_send_count (both are only
\* tested for truth or compared when set), NoTime for the instants, and the
\* empty sequence for repeat_days
Reminder(user_id, reminder_type, scheduled_time, is_recurring, repeat_interval, repeat_days, reminder_time, expires_at, max_send_count) ==
    [user_id |-> user_id, reminder_type |-> reminder_type,
     status |-> "ACTIVE", scheduled_time |-> scheduled_time,
     reminder_time |-> reminder_time, repeat_days |-> repeat_days,
     repeat_interval |-> repeat_interval, sent_at |-> NoTime,
     sent_count |-> 0, failed_at |-> NoTime, failed_count |-> 0,
     max_send_count |-> max_send_count, is_recurring |-> is_recurring,
     is_enabled |-> TRUE, expires_at |-> expires_at]

is_active_whatever_status(r) == r.is_enabled

\* an activity test that does not look at the enabled flag
is_active_whatever_flag(r) == r.status = "ACTIVE"

is_active(r) == r.status = "ACTIVE" /\ r.is_enabled

is_expired(r, t) == r.expires_at # NoTime /\ t > r.expires_at

can_send(r, t) ==
    /\ is_active(r)
    /\ ~is_expired(r, t)
    /\ ~(r.max_send_count # 0 /\ r.sent_count >= r.max_send_count)
    /\ t >= r.scheduled_time

get_active_reminders(R, t) ==
    {i \in 1..Len(R) :
        /\ R[i].status = "ACTIVE"
        /\ R[i].is_enabled
        /\ R[i].scheduled_time <= t
        /\ (R[i].expires_at = NoTime \/ R[i].expires_at > t)
        /\ (R[i].max_send_count = 0 \/ R[i].sent_count < R[i].max_send_count)}

get_expired_reminders(R, t) ==
    {i \in 1..Len(R) :
        /\ R[i].expires_at # NoTime
        /\ R[i].expires_at <= t
        /\ R[i].status = "ACTIVE"}

mark_as_sent(R, reminder_id, t) ==
    [R EXCEPT ![reminder_id].status = "SENT",
              ![reminder_id].sent_at = t,
              ![reminder_id].sent_count = @ + 1]

mark_as_failed(R, reminder_id, t) ==
    [R EXCEPT ![reminder_id].status = "FAILED",
              ![reminder_id].failed_at = t,
              ![reminder_id].failed_count = @ + 1]

mark_as_expired(R, reminder_id) ==
    [R EXCEPT ![reminder_id].status = "EXPIRED"]

crud_cancel_reminder(R, reminder_id) ==
    [R EXCEPT ![reminder_id].status = "CANCELLED"]

enable_reminder(R, reminder_id) ==
    [R EXCEPT ![reminder_id].is_enabled = TRUE]

disable_reminder(R, reminder_id) ==
    [R EXCEPT ![reminder_id].is_enabled = FALSE]

cancel_all_active_reminders(R, user_id) ==
    [i \in 1..Len(R) |->
        IF R[i].user_id = user_id /\ R[i].status = "ACTIVE"
        THEN [R[i] EXCEPT !.status = "CANCELLED"]
        ELSE R[i]]

create_quick_reminder(R, user_id, delay_minutes, t) ==
    Append(R, Reminder(user_id, "CUSTOM", t + delay_minutes, FALSE, 0,
                       <<>>, NoTime, NoTime, 0))

create_recurring_reminder(R, user_id, reminder_type, repeat_interval, start_time, end_time, max_send_count) ==
    Append(R, Reminder(user_id, reminder_type, start_time, TRUE,
                       repeat_interval, <<>>, NoTime, end_time,
                       max_send_count))

\* a start_date that is today's slot whether or not it has passed
create_daily_reminder_today(R, user_id, reminder_time, end_date, max_send_count, t) ==
    Append(R, Reminder(user_id, "DAILY", AtSlot(DayOf(t), reminder_time),
                       TRUE, 0, <<>>, reminder_time, end_date, max_send_count))

\* start_date is today's slot, or tomorrow's when today's has passed
create_daily_reminder(R, user_id, reminder_time, end_date, max_send_count, t) ==
    LET today == AtSlot(DayOf(t), reminder_time)
        start_date == IF today <= t THEN today + DayLen ELSE today
    IN Append(R, Reminder(user_id, "DAILY", start_date, TRUE, 0, <<>>,
                          reminder_time, end_date, max_send_count))

\* days_of_week holds the numbers of the listed days that day_mapping
\* knows, in the order given.  The loop returns at the first of them, a day
\* of this week that is today or earlier being moved to next week; with
\* none it falls back to a week from today
_get_next_weekly_date(days_of_week, reminder_time, t) ==
    LET days_ahead == days_of_week[1] - Weekday(t)
    IN IF days_of_week = <<>>
       THEN AtSlot(DayOf(t) + DaysPerWeek, reminder_time)
       ELSE AtSlot(DayOf(t) + (IF days_ahead <= 0
                                THEN days_ahead + DaysPerWeek
                                ELSE days_ahead),
                   reminder_time)

create_weekly_reminder(R, user_id, days_of_week, reminder_time, t) ==
    Append(R, Reminder(user_id, "WEEKLY",
                       _get_next_weekly_date(days_of_week, reminder_time, t),
                       TRUE, 0, days_of_week, reminder_time, NoTime, 0))

\* ------------------------------------------ ReminderScheduler: the job store
\* A job is kept under the id reminder_<id>; a next_run_time of NoTime is
\* a job the trigger gave no fire time (it stays in the store and never runs)
RJob(id, trigger, next_run_time, interval, end_date, slot) ==
    [id |-> id, trigger |-> trigger, next_run_time |-> next_run_time,
     interval |-> interval, end_date |-> end_date, slot |-> slot]

CeilDiv(a, b) == (a + b - 1) \div b

Bounded(t, end_date) ==
    IF end_date # NoTime /\ t > end_date THEN NoTime ELSE t

\* IntervalTrigger: the first fire time at or after t on the grid
\* start_date + k * interval, none once past end_date
IntervalFirst(start_date, interval, end_date, t) ==
    Bounded(IF start_date > t
            THEN start_date
            ELSE start_date + interval * CeilDiv(t - start_date, interval),
            end_date)

\* CronTrigger(hour, minute): the next instant after t at that time of day
CronNext(slot, t) ==
    IF TimeOfDay(t) < slot
    THEN AtSlot(DayOf(t), slot)
    ELSE AtSlot(DayOf(t) + 1, slot)

\* repeat_days holds the day names joined by commas, which is not a JSON
\* document: json.loads raises on it and the weekly branch falls back to
\* the one-time trigger, as does an empty repeat_days
TriggerOf(r) ==
    IF r.is_recurring /\ r.repeat_interval # 0 THEN "interval"
    ELSE IF r.reminder_type = "DAILY" /\ r.reminder_time # NoTime THEN "cron"
    ELSE "date"

JobFor(r, id, t) ==
    CASE TriggerOf(r) = "interval" ->
           RJob(id, "interval",
                IntervalFirst(r.scheduled_time, r.repeat_interval,
                              r.expires_at, t),
                r.repeat_interval, r.expires_at, NoTime)
      [] TriggerOf(r) = "cron" ->
           RJob(id, "cron", CronNext(r.reminder_time, t), 0, NoTime,
                r.reminder_time)
      [] TriggerOf(r) = "date" ->
           RJob(id, "date", r.scheduled_time, 0, NoTime, NoTime)

remove_reminder(J, reminder_id) == {j \in J : j.id # reminder_id}

_schedule_reminder(J, r, id, t) ==
    remove_reminder(J, id) \cup {JobFor(r, id, t)}

add_reminder(J, r, id, t) == _schedule_reminder(J, r, id, t)

\* a load that adds the jobs and leaves those of the same ids where they are
_load_existing_reminders_adding(J, R, t) ==
    J \cup {JobFor(R[i], i, t) : i \in get_active_reminders(R, t)}

_load_existing_reminders(J, R, t) ==
    LET ids == get_active_reminders(R, t)
    IN {j \in J : j.id \notin ids} \cup {JobFor(R[i], i, t) : i \in ids}

\* the job store after the scheduler has submitted a run of job j
AfterRun(J, j) ==
    LET following == CASE j.trigger = "date" -> NoTime
                       [] j.trigger = "interval" ->
                            Bounded(j.next_run_time + j.interval, j.end_date)
                       [] j.trigger = "cron" -> j.next_run_time + DayLen
    IN IF following = NoTime
       THEN J \ {j}
       ELSE (J \ {j}) \cup {[j EXCEPT !.next_run_time = following]}

ReminderJobDue(j) == j.next_run_time # NoTime /\ j.next_run_time <= now

Dispatched(id) == IF id \in DOMAIN outbox THEN outbox[id] ELSE 0
Handed(id) == (id :> Dispatched(id) + 1) @@ outbox

\* ---------------------------------------------------- reminders: requests
\* /remind <time> <text> [repeat]
_remind_command(user_id, delay_minutes, is_recurring) ==
    LET id == Len(reminders) + 1
        recurring == create_recurring_reminder(reminders, user_id, "CUSTOM",
                        delay_minutes, now + delay_minutes, NoTime, 0)
    IN IF delay_minutes <= 0
       THEN UNCHANGED vars
       ELSE /\ last' = Op(IF is_recurring THEN "remind_repeat" ELSE "remind",
                          user_id, id)
            /\ UNCHANGED <<now, rtasks, outbox>>
            /\ IF is_recurring
               THEN /\ reminders' = recurring
                    /\ rjobs' = add_reminder(rjobs, recurring[id], id, now)
               ELSE /\ reminders' = create_quick_reminder(
                                       reminders, user_id, delay_minutes, now)
                    /\ UNCHANGED rjobs

\* /daily <time> <title>
_daily_command(user_id, reminder_time) ==
    LET id == Len(reminders) + 1
        created == create_daily_reminder(reminders, user_id, reminder_time,
                                         NoTime, 0, now)
    IN /\ reminders' = created
       /\ rjobs' = add_reminder(rjobs, created[id], id, now)
       /\ last' = Op("daily", user_id, id)
       /\ UNCHANGED <<now, rtasks, outbox>>

\* /weekly <days> <time> <title>
_weekly_command(user_id, days_of_week, reminder_time) ==
    LET id == Len(reminders) + 1
        created == create_weekly_reminder(reminders, user_id, days_of_week,
                                          reminder_time, now)
    IN /\ reminders' = created
       /\ rjobs' = add_reminder(rjobs, created[id], id, now)
       /\ last' = Op("weekly", user_id, id)
       /\ UNCHANGED <<now, rtasks, outbox>>

\* the create_reminder task: the row is stored as given, no job is added
create_reminder(user_id, reminder_type, scheduled_time, is_recurring, repeat_interval, expires_at, max_send_count) ==
    /\ reminders' = Append(reminders,
                       Reminder(user_id, reminder_type, scheduled_time,
                                is_recurring, repeat_interval, <<>>, NoTime,
                                expires_at, max_send_count))
    /\ last' = Op("create_reminder", user_id, Len(reminders) + 1)
    /\ UNCHANGED <<now, rjobs, rtasks, outbox>>

\* the "cancel all" button
_handle_cancel_all_reminders_callback(user_id) ==
    IF cancel_all_active_reminders(reminders, user_id) = reminders
    THEN UNCHANGED vars
    ELSE /\ reminders' = cancel_all_active_reminders(reminders, user_id)
         /\ last' = Op("cancel_all", user_id, 0)
         /\ UNCHANGED <<now, rjobs, rtasks, outbox>>

\* the cancel_reminder task (CRUDReminder.cancel_reminder does the same)
cancel_reminder(reminder_id) ==
    IF crud_cancel_reminder(reminders, reminder_id) = reminders
    THEN UNCHANGED vars
    ELSE /\ reminders' = crud_cancel_reminder(reminders, reminder_id)
         /\ last' = Op("cancel_reminder", reminders[reminder_id].user_id,
                       reminder_id)
         /\ UNCHANGED <<now, rjobs, rtasks, outbox>>

SetEnabled(reminder_id, flag) ==
    /\ reminders[reminder_id].is_enabled # flag
    /\ reminders' = IF flag THEN enable_reminder(reminders, reminder_id)
                    ELSE disable_reminder(reminders, reminder_id)
    /\ last' = Op(IF flag THEN "enable" ELSE "disable",
                  reminders[reminder_id].user_id, reminder_id)
    /\ UNCHANGED <<now, rjobs, rtasks, outbox>>

\* ------------------------------------------------------- reminders: sweeps
\* ReminderScheduler.cleanup_expired_reminders
cleanup_expired_reminders ==
    LET ids == get_expired_reminders(reminders, now)
    IN IF ids = {}
       THEN UNCHANGED vars
       ELSE /\ reminders' = [i \in 1..Len(reminders) |->
                               IF i \in ids
                               THEN mark_as_expired(reminders, i)[i]
                               ELSE reminders[i]]
            /\ rjobs' = {j \in rjobs : j.id \notin ids}
            /\ last' = Op("cleanup", 0, 0)
            /\ UNCHANGED <<now, rtasks, outbox>>

\* the periodic cleanup_expired_reminders task: it runs in the worker, which
\* has the storage and not the scheduler
task_cleanup_expired_reminders ==
    LET ids == get_expired_reminders(reminders, now)
    IN IF ids = {}
       THEN UNCHANGED vars
       ELSE /\ reminders' = [i \in 1..Len(reminders) |->
                               IF i \in ids
                               THEN [reminders[i] EXCEPT !.status = "EXPIRED"]
                               ELSE reminders[i]]
            /\ last' = Op("task_cleanup", 0, 0)
            /\ UNCHANGED <<now, rjobs, rtasks, outbox>>

\* the periodic check_due_reminders task: for every due reminder it queues
\* the message and books the send itself
check_due_reminders ==
    LET ids == get_active_reminders(reminders, now)
        sent(r) == [r EXCEPT !.status = "SENT", !.sent_at = now,
                             !.sent_count = @ + 1]
        booked(r) == IF r.is_recurring /\ r.repeat_interval # 0
                     THEN [sent(r) EXCEPT
                             !.scheduled_time = now + r.repeat_interval,
                             !.status = "ACTIVE"]
                     ELSE sent(r)
    IN IF ids = {}
       THEN UNCHANGED vars
       ELSE /\ reminders' = [i \in 1..Len(reminders) |->
                               IF i \in ids THEN booked(reminders[i])
                               ELSE reminders[i]]
            /\ outbox' = [i \in ids \cup DOMAIN outbox |-> 
                            IF i \in ids THEN Dispatched(i) + 1
                            ELSE outbox[i]]
            /\ last' = Op("check_due", 0, 0)
            /\ UNCHANGED <<now, rjobs, rtasks>>

\* ------------------------------------------------------ reminders: firing
\* the scheduler submits a due job.  A run later than misfire_grace_time is
\* dropped, so is a run while the job's previous run has not returned
\* (max_instances=1); otherwise _send_reminder_job re-reads the reminder and,
\* when it is active, hands the message to the notifier.
_send_reminder_job(j) ==
    LET r == reminders[j.id]
        missed == now - j.next_run_time > misfire_grace_time
        running == \E t \in rtasks : t.id = j.id
    IN /\ ReminderJobDue(j)
       /\ rjobs' = AfterRun(rjobs, j)
       /\ UNCHANGED <<now, reminders>>
       /\ IF missed \/ running \/ ~is_active(r)
          THEN /\ last' = Op("fire_skip", r.user_id, j.id)
               /\ UNCHANGED <<rtasks, outbox>>
          ELSE /\ last' = Op("fire_send", r.user_id, j.id)
               /\ rtasks' = rtasks \cup {[id |-> j.id]}
               /\ outbox' = Handed(j.id)

_schedule_next_recurring_reminder(r, t) ==
    [Reminder(r.user_id, r.reminder_type, t + r.repeat_interval,
              r.is_recurring, r.repeat_interval, r.repeat_days,
              r.reminder_time, r.expires_at, r.max_send_count)
     EXCEPT !.status = "ACTIVE", !.is_enabled = TRUE]

HasSuccessor(r) == r.is_recurring /\ r.repeat_interval # 0

\* _send_reminder after the notifier answered, and the rest of
\* _send_reminder_job: send_message returns None for a blocked recipient,
\* so only "error" reaches the except branch
_send_reminder(t, result) ==
    LET r == reminders[t.id]
        marked == IF result = "error"
                  THEN mark_as_failed(reminders, t.id, now)
                  ELSE mark_as_sent(reminders, t.id, now)
        successor == _schedule_next_recurring_reminder(r, now)
        new_id == Len(reminders) + 1
    IN /\ t \in rtasks
       /\ rtasks' = rtasks \ {t}
       /\ last' = Op("send_" \o result, r.user_id, t.id)
       /\ UNCHANGED <<now, outbox>>
       /\ IF HasSuccessor(r)
          THEN /\ reminders' = Append(marked, successor)
               /\ rjobs' = _schedule_reminder(rjobs, successor, new_id, now)
          ELSE /\ reminders' = marked
               /\ UNCHANGED rjobs

\* the process is started again: the job store is durable, the calls in
\* flight are gone, the due active reminders are scheduled anew
ReminderSchedulerStart ==
    /\ rjobs' = _load_existing_reminders(rjobs, reminders, now)
    /\ rtasks' = {}
    /\ last' = Op("scheduler_start", 0, 0)
    /\ UNCHANGED <<now, reminders, outbox>>

\* the clock advances when no reminder job is due
ReminderTick ==
    /\ \A j \in rjobs : ~ReminderJobDue(j)
    /\ now' = now + 1
    /\ last' = Op("tick", 0, 0)
    /\ UNCHANGED <<reminders, rjobs, rtasks, outbox>>

ExpiryOffsets == {1}
MaxSendCounts == {1}

\* the bot's commands and buttons with the scheduler of the bot process
NextReminder ==
    \/ \E u \in RUsers, d \in Delays, rec \in BOOLEAN :
          Len(reminders) < MaxReminders /\ _remind_command(u, d, rec) /\ UNCHANGED fvars
    \/ \E u \in RUsers, s \in Slots :
          Len(reminders) < MaxReminders /\ _daily_command(u, s) /\ UNCHANGED fvars
    \/ \E u \in RUsers, days \in WeekdayLists, s \in Slots :
          Len(reminders) < MaxReminders /\ _weekly_command(u, days, s) /\ UNCHANGED fvars
    \/ \E u \in RUsers : _handle_cancel_all_reminders_callback(u) /\ UNCHANGED fvars
    \/ \E id \in 1..Len(reminders) : cancel_reminder(id) /\ UNCHANGED fvars
    \/ \E j \in rjobs :
          Cardinality(rtasks) < MaxRTasks /\ _send_reminder_job(j) /\ UNCHANGED fvars
    \/ \E t \in rtasks, r \in Results :
          /\ HasSuccessor(reminders[t.id]) => Len(reminders) < MaxReminders + 1
          /\ _send_reminder(t, r)
          /\ UNCHANGED fvars
    \/ now < MaxRTime /\ ReminderTick /\ UNCHANGED fvars

SpecReminder == Init /\ [][NextReminder]_vars

\* the worker's tasks (rows stored by create_reminder, the periodic sweeps),
\* the enabled flag, and the scheduler started over those rows; the rows a
\* send chains may number one more than the rows the task stores
RECURSIVE DispatchedUpTo(_)
DispatchedUpTo(id) ==
    IF id = 0 THEN 0 ELSE Dispatched(id) + DispatchedUpTo(id - 1)

FewDispatches == DispatchedUpTo(Len(reminders)) < MaxDispatches

NextWorker ==
    \/ \E u \in RUsers, rec \in BOOLEAN, e \in ExpiryOffsets,
          m \in MaxSendCounts :
          /\ Len(reminders) < MaxWorkerReminders
          /\ create_reminder(u, "CUSTOM", now, rec,
                             IF rec THEN 1 ELSE 0, now + e, m)
          /\ UNCHANGED fvars
    \/ \E id \in 1..Len(reminders), flag \in BOOLEAN : SetEnabled(id, flag) /\ UNCHANGED fvars
    \/ cleanup_expired_reminders /\ UNCHANGED fvars
    \/ task_cleanup_expired_reminders /\ UNCHANGED fvars
    \/ FewDispatches /\ check_due_reminders /\ UNCHANGED fvars
    \/ \E j \in rjobs :
          /\ Cardinality(rtasks) < MaxRTasks
          /\ FewDispatches
          /\ _send_reminder_job(j)
          /\ UNCHANGED fvars
    \/ \E t \in rtasks, r \in Results :
          /\ HasSuccessor(reminders[t.id]) =>
                Len(reminders) < MaxWorkerReminders + 1
          /\ _send_reminder(t, r)
          /\ UNCHANGED fvars
    \/ ReminderSchedulerStart /\ UNCHANGED fvars
    \/ now < MaxWorkerTime /\ ReminderTick /\ UNCHANGED fvars

SpecWorker == Init /\ [][NextWorker]_vars

\* the process is down for some minutes and is then started: the jobs in
\* the durable store are as they were left, the clock has moved on
ReminderSchedulerStartAfter(down_minutes) ==
    /\ now' = now + down_minutes
    /\ rjobs' = _load_existing_reminders(rjobs, reminders, now + down_minutes)
    /\ rtasks' = {}
    /\ last' = Op("scheduler_start_after", 0, 0)
    /\ UNCHANGED <<reminders, outbox>>

\* rows stored by the worker and by /remind, the scheduler started over
\* them, and stops of the process that outlast misfire_grace_time
MaxDownTime == 7
MaxDownReminders == 1
DownTimes == {misfire_grace_time + 1}

NextDowntime ==
    \/ \E u \in RUsers, d \in Delays :
          /\ Len(reminders) < MaxDownReminders
          /\ create_reminder(u, "CUSTOM", now + d, FALSE, 0, NoTime, 0)
          /\ UNCHANGED fvars
    \/ \E u \in RUsers, d \in Delays :
          /\ Len(reminders) < MaxDownReminders
          /\ _remind_command(u, d, TRUE)
          /\ UNCHANGED fvars
    \/ \E j \in rjobs :
          /\ Cardinality(rtasks) < MaxRTasks
          /\ FewDispatches
          /\ _send_reminder_job(j)
          /\ UNCHANGED fvars
    \/ \E t \in rtasks, r \in Results :
          /\ HasSuccessor(reminders[t.id]) =>
                Len(reminders) < MaxDownReminders + 1
          /\ _send_reminder(t, r)
          /\ UNCHANGED fvars
    \/ ReminderSchedulerStart /\ UNCHANGED fvars
    \/ \E d \in DownTimes :
          /\ now + d <= MaxDownTime
          /\ ReminderSchedulerStartAfter(d)
          /\ UNCHANGED fvars
    \/ now < MaxDownTime /\ ReminderTick /\ UNCHANGED fvars

SpecDowntime == Init /\ [][NextDowntime]_vars

\* startup recovery over a long history: user 1 has started a session and
\* user 2 has since started and cancelled many; both go on using the timer
RestoreUsers == {1, 2}
RestoreDurations == {2}
Histories == {98, 99}
MaxRestoreRows == 101
MaxRestoreTime == 1

\* the row start_focus_session(user_id, 2) stores in minute 0
StartedRow(user_id) ==
    crud_start_session(create_focus_session(<<>>, user_id, "FOCUS", 2), 1, 0)[1]

\* that row after cancel_session(user_id) in the same minute
CancelledRow(user_id) ==
    crud_cancel_session(<<StartedRow(user_id)>>, 1, 0)[1]

\* the state after start_focus_session(1, 2) and n times
\* start_focus_session(2, 2), cancel_session(2), all in minute 0
InitRestore ==
    \E n \in Histories :
       /\ now = 0
       /\ sessions = [i \in 1..(n + 1) |->
                         IF i = 1 THEN StartedRow(1) ELSE CancelledRow(2)]
       /\ active_sessions = CachePut(<<>>, 1, SessionInfo(1, 0, 2, "FOCUS"))
       /\ jobs = _schedule_progress_notifications(
                    add_job({}, Job("focus_complete", 1, 1, 0, 2, 0)), 1, 2, 1, 0)
       /\ tasks = {}
       /\ last = Op("cancel", 2, n + 1)
       /\ reminders = <<>>
       /\ rjobs = {}
       /\ rtasks = {}
       /\ outbox = <<>>

NextRestore ==
    \/ \E u \in RestoreUsers, d \in RestoreDurations :
          /\ Len(sessions) < MaxRestoreRows
          /\ start_focus_session(u, d)
          /\ UNCHANGED rvars
    \/ \E u \in RestoreUsers : pause_session(u) /\ UNCHANGED rvars
    \/ \E u \in RestoreUsers : resume_session(u) /\ UNCHANGED rvars
    \/ \E u \in RestoreUsers : cancel_session(u) /\ UNCHANGED rvars
    \/ Restart /\ UNCHANGED rvars
    \/ now < MaxRestoreTime /\ Tick /\ UNCHANGED rvars

SpecRestore == InitRestore /\ [][NextRestore]_vars

\* one-time reminders that are switched off and on while the scheduler and
\* the periodic sweep fire them
MaxToggleTime == 1
MaxToggleReminders == 1

NextToggle ==
    \/ \E u \in RUsers :
          /\ Len(reminders) < MaxToggleReminders
          /\ create_reminder(u, "CUSTOM", now, FALSE, 0, NoTime, 0)
          /\ UNCHANGED fvars
    \/ \E id \in 1..Len(reminders), flag \in BOOLEAN : SetEnabled(id, flag) /\ UNCHANGED fvars
    \/ FewDispatches /\ check_due_reminders /\ UNCHANGED fvars
    \/ \E j \in rjobs :
          /\ Cardinality(rtasks) < MaxRTasks
          /\ FewDispatches
          /\ _send_reminder_job(j)
          /\ UNCHANGED fvars
    \/ \E t \in rtasks, r \in Results :
          /\ HasSuccessor(reminders[t.id]) =>
                Len(reminders) < MaxToggleReminders + 1
          /\ _send_reminder(t, r)
          /\ UNCHANGED fvars
    \/ ReminderSchedulerStart /\ UNCHANGED fvars
    \/ now < MaxToggleTime /\ ReminderTick /\ UNCHANGED fvars

SpecToggle == Init /\ [][NextToggle]_vars

\* ------------------------------------------------------------------ claims
Live(i) == sessions[i].status \in {"ACTIVE", "PAUSED"}
LiveOf(u) == {i \in 1..Len(sessions) : sessions[i].user_id = u /\ Live(i)}
JobsOfUser(J, u) == {j \in J : j.user = u}
JobsOfSession(J, sid) == {j \in J : j.sid = sid}

\* active minutes of a running session: time since actual_start without
\* the accumulated pauses
ActiveMinutes(i) ==
    (now - sessions[i].actual_start) - sessions[i].paused_duration
Remaining(i) == sessions[i].planned_duration - ActiveMinutes(i)

\* C1: every user has at most one session that is ACTIVE or PAUSED
C1_AtMostOneLiveSession ==
    \A u \in Users : Cardinality(LiveOf(u)) <= 1

\* C2: a start for a user who has an ACTIVE or PAUSED session is rejected:
\* the caller gets a failure, not a session
C2_StartConflictRejected ==
    \A u \in Users :
        get_active_session(sessions, u) # 0 => start_focus_session_result(u) = 0

\* C3: right after a resume the session is ACTIVE and, when time remains,
\* its completion job is due planned_duration minus the active minutes from now
C3_ResumeSchedulesRemaining ==
    last.op = "resume" =>
        /\ sessions[last.sid].status = "ACTIVE"
        /\ Remaining(last.sid) > 0 =>
             \E j \in jobs :
                 /\ JobId(j) = <<"focus_complete", last.user, last.sid, 0>>
                 /\ j.run_date = now + Remaining(last.sid)

\* C4: right after a pause the session is PAUSED with last_pause_start
\* recorded and no completion or progress job of that session is pending
C4_PauseLeavesNoJob ==
    last.op = "pause" =>
        /\ sessions[last.sid].status = "PAUSED"
        /\ sessions[last.sid].last_pause_start = now
        /\ JobsOfSession(jobs, last.sid) = {}

\* C5: right after a cancel the session is CANCELLED, no job of the user is
\* pending and the user has no cache entry
C5_CancelLeavesNothing ==
    last.op = "cancel" =>
        /\ sessions[last.sid].status = "CANCELLED"
        /\ JobsOfUser(jobs, last.user) = {}
        /\ ~InCache(active_sessions, last.user)

\* C6: a CANCELLED session record never changes again
C6_CancelledIsTerminal ==
    [][\A i \in 1..Len(sessions) :
          sessions[i].status = "CANCELLED" => sessions'[i] = sessions[i]]_vars

CompletedFocus(u) ==
    {i \in 1..Len(sessions) : /\ sessions[i].user_id = u
                              /\ sessions[i].session_type = "FOCUS"
                              /\ sessions[i].status = "COMPLETED"}

\* C7: the break started after a completed FOCUS session is a LONG_BREAK
\* when the user's count of completed FOCUS sessions is a multiple of 4,
\* and a SHORT_BREAK otherwise
C7_EveryFourthBreakIsLong ==
    last.op = "focus_start_break" =>
        sessions[last.sid].session_type =
            IF Cardinality(CompletedFocus(last.user)) % sessions_before_long_break = 0
            THEN "LONG_BREAK" ELSE "SHORT_BREAK"

\* C8: once the timer-driven completion of a FOCUS session has run, the
\* user's cache entry refers to an ACTIVE break of that user; and once the
\* completion job of a break has run, that break is COMPLETED
C8_BreakChained ==
    /\ last.op = "focus_complete_done" =>
         /\ InCache(active_sessions, last.user)
         /\ LET b == active_sessions[last.user].session_id
            IN /\ sessions[b].user_id = last.user
               /\ sessions[b].session_type # "FOCUS"
               /\ sessions[b].status = "ACTIVE"
    /\ last.op = "run_break_complete" =>
         sessions[last.sid].status = "COMPLETED"
    /\ last.op = "break_complete_done" =>
         ~InCache(active_sessions, last.user)

\* C9: a resume with no time remaining completes the session
C9_ResumeCompletesWhenNoTimeLeft ==
    (last.op = "resume" /\ Remaining(last.sid) <= 0) =>
        sessions[last.sid].status = "COMPLETED"

\* C10: when the notifier reports blocked during a progress ping, no job of
\* that user stays pending and the user's cache entry is gone; and while a
\* user has no cache entry no progress ping is scheduled for that user
C10_BlockedPurgesUser ==
    [][/\ last'.op = "progress_blocked" =>
            /\ JobsOfUser(jobs', last'.user) = {}
            /\ ~InCache(active_sessions', last'.user)
       /\ \A u \in Users :
            (~InCache(active_sessions, u) /\ ~InCache(active_sessions', u)) =>
                {j \in JobsOfUser(jobs', u) : j.kind = "progress"} \subseteq jobs
      ]_vars

\* a blocked ping of a running session that had a later ping and its
\* completion job pending
C10_Witness ==
    /\ last.op = "progress_blocked"
    /\ \E i \in 1..Len(sessions) :
          /\ sessions[i].user_id = last.user
          /\ sessions[i].status = "ACTIVE"
          /\ sessions[i].planned_duration > 2 * ProgressStep
          /\ now = sessions[i].actual_start + ProgressStep

\* ------------------------------------------------------- claims: reminders
JobsOfReminder(J, id) == {j \in J : j.id = id}
Fired(op) == op \in {"fire_send", "fire_skip"}
CreateOps == {"remind", "remind_repeat", "daily", "weekly", "create_reminder"}

\* C11: a transient delivery error suppresses nothing: after a progress ping
\* that failed with one, every pending job of the user is still pending and
\* the cache is as it was; after a reminder send that failed with one, the
\* reminder has the status it had and every pending job is still pending
C11_TransientErrorSuppressesNothing ==
    [][/\ last'.op = "progress_error" =>
            /\ JobsOfUser(jobs, last'.user) \subseteq jobs'
            /\ active_sessions' = active_sessions
       /\ last'.op = "send_error" =>
            /\ reminders'[last'.sid].status = reminders[last'.sid].status
            /\ rjobs \subseteq rjobs'
      ]_vars

\* the reminder half of C11 on its own
TransientErrorKeepsReminder ==
    [][last'.op = "send_error" =>
            reminders'[last'.sid].status = reminders[last'.sid].status
      ]_vars

MaxReached(r) == r.max_send_count # 0 /\ r.sent_count >= r.max_send_count

\* C12: a fire hands nothing to the notifier and changes no record when the
\* reminder it re-reads is disabled, past its expires_at, or has sent_count
\* at or above its max_send_count
C12_FireGuards ==
    [][(/\ Fired(last'.op)
        /\ \/ ~reminders[last'.sid].is_enabled
           \/ is_expired(reminders[last'.sid], now)
           \/ MaxReached(reminders[last'.sid]))
       => /\ last'.op = "fire_skip"
          /\ reminders' = reminders
          /\ outbox' = outbox
      ]_vars

\* C13: a successful dispatch adds exactly 1 to sent_count and sets sent_at;
\* a recurring reminder gets a successor record that is ACTIVE and has a
\* job with a fire time, a reminder that is not recurring becomes SENT and
\* gets no successor
C13_DispatchBooksAndChains ==
    [][last'.op = "send_ok" =>
         LET id == last'.sid
             succ == Len(reminders')
         IN /\ reminders'[id].sent_count = reminders[id].sent_count + 1
            /\ reminders'[id].sent_at = now
            /\ IF reminders[id].is_recurring
               THEN /\ succ = Len(reminders) + 1
                    /\ reminders'[succ].status = "ACTIVE"
                    /\ \E j \in JobsOfReminder(rjobs', succ) :
                          j.next_run_time # NoTime
               ELSE /\ reminders'[id].status = "SENT"
                    /\ succ = Len(reminders)
      ]_vars

\* C14: after a permanently failed dispatch (the notifier reports blocked)
\* the reminder is FAILED and neither a successor record nor a job was added
C14_PermanentFailureMarksFailed ==
    [][last'.op = "send_blocked" =>
         /\ reminders'[last'.sid].status = "FAILED"
         /\ Len(reminders') = Len(reminders)
         /\ rjobs' \subseteq rjobs
      ]_vars

\* C15: a fire that finds a non-recurring reminder already SENT hands
\* nothing to the notifier, leaves the record (sent_count, sent_at, status
\* and all) unchanged and creates neither a record nor a job
C15_SecondFireOnSentIsNoOp ==
    [][(/\ Fired(last'.op)
        /\ reminders[last'.sid].status = "SENT"
        /\ ~reminders[last'.sid].is_recurring)
       => /\ last'.op = "fire_skip"
          /\ reminders' = reminders
          /\ outbox' = outbox
          /\ rtasks' = rtasks
          /\ rjobs' \subseteq rjobs
      ]_vars

\* a job fired on a one-shot reminder that had been sent once before
C15_Witness ==
    /\ last.op = "fire_skip"
    /\ reminders[last.sid].status = "SENT"
    /\ ~reminders[last.sid].is_recurring
    /\ reminders[last.sid].sent_count = 1
    /\ Dispatched(last.sid) = 1

\* C16: for an interval reminder with expires_at, neither the record's
\* scheduled_time nor the fire time of its job lies past expires_at
C16_NeverPastExpiry ==
    \A i \in 1..Len(reminders) :
        (HasSuccessor(reminders[i]) /\ reminders[i].expires_at # NoTime) =>
            /\ reminders[i].scheduled_time <= reminders[i].expires_at
            /\ \A j \in JobsOfReminder(rjobs, i) :
                  j.next_run_time <= reminders[i].expires_at

\* C17: a cancel turns exactly the ACTIVE reminders it addresses into
\* CANCELLED, leaves the status of the others as it was, and leaves no job
\* pending for a reminder it addressed
C17_CancelRemovesJob ==
    [][/\ last'.op = "cancel_all" =>
            \A i \in 1..Len(reminders) :
                IF reminders[i].user_id = last'.user
                   /\ reminders[i].status = "ACTIVE"
                THEN /\ reminders'[i].status = "CANCELLED"
                     /\ JobsOfReminder(rjobs', i) = {}
                ELSE reminders'[i].status = reminders[i].status
       /\ last'.op = "cancel_reminder" =>
            /\ reminders'[last'.sid].status =
                 IF reminders[last'.sid].status = "ACTIVE"
                 THEN "CANCELLED"
                 ELSE reminders[last'.sid].status
            /\ JobsOfReminder(rjobs', last'.sid) = {}
      ]_vars

\* C18: after an expire sweep every reminder that was ACTIVE with
\* expires_at reached is EXPIRED and has no job; every other reminder has
\* the status and the jobs it had
C18_SweepExpires ==
    [][last'.op \in {"cleanup", "task_cleanup"} =>
         \A i \in 1..Len(reminders) :
             IF i \in get_expired_reminders(reminders, now)
             THEN /\ reminders'[i].status = "EXPIRED"
                  /\ JobsOfReminder(rjobs', i) = {}
             ELSE /\ reminders'[i].status = reminders[i].status
                  /\ JobsOfReminder(rjobs', i) = JobsOfReminder(rjobs, i)
      ]_vars

\* C19: no create stores a malformed reminder: a WEEKLY one without a day,
\* a recurring interval one without a positive interval, or a one-shot
\* whose time is not ahead of the clock
C19_CreateValidates ==
    [][(last'.op \in CreateOps /\ Len(reminders') = Len(reminders) + 1) =>
         LET r == reminders'[Len(reminders')]
         IN /\ r.reminder_type = "WEEKLY" => r.repeat_days # <<>>
            /\ (r.reminder_type = "CUSTOM" /\ r.is_recurring) =>
                  r.repeat_interval > 0
            /\ ~r.is_recurring => r.scheduled_time > now
      ]_vars

\* C20: when a create returns, the reminder it stored is ACTIVE and a job
\* is pending under its id
C20_CreateSchedules ==
    [][(last'.op \in CreateOps /\ Len(reminders') = Len(reminders) + 1) =>
         /\ reminders'[Len(reminders')].status = "ACTIVE"
         /\ JobsOfReminder(rjobs', Len(reminders')) # {}
      ]_vars

\* the one instant after t, at most a day later, with the time of day slot
NextAtSlot(slot, t) ==
    CHOOSE x \in (t + 1)..(t + DayLen) : TimeOfDay(x) = slot

SeqRange(q) == {q[k] : k \in 1..Len(q)}

\* the instants after t, within a week and a day, that fall on a weekday
\* of days at the time of day slot (the slot of the running minute has
\* passed, as for a DAILY reminder)
WeeklyMatches(days, slot, t) ==
    {x \in (t + 1)..(t + (DaysPerWeek + 1) * DayLen) :
        Weekday(x) \in SeqRange(days) /\ TimeOfDay(x) = slot}

\* C22: the next occurrence computed for a WEEKLY reminder with a
\* non-empty weekday set is the nearest instant from now on that falls on
\* a weekday of the set at the requested time of day, today included when
\* its slot has not passed
C22_WeeklyNearest ==
    [][(last'.op = "weekly" /\ reminders'[last'.sid].repeat_days # <<>>) =>
         LET r == reminders'[last'.sid]
             matches == WeeklyMatches(r.repeat_days, r.reminder_time, now)
         IN /\ r.scheduled_time \in matches
            /\ \A x \in matches : r.scheduled_time <= x
      ]_vars

\* C23: a DAILY or WEEKLY reminder keeps firing: whenever its job comes
\* due in time, with no earlier run of it still going, the reminder is
\* dispatched, unless it was cancelled, disabled, has expired or has
\* reached max_send_count; being SENT for an earlier occurrence is no bar
C23_DailyWeeklyKeepFiring ==
    [][(/\ Fired(last'.op)
        /\ reminders[last'.sid].reminder_type \in {"DAILY", "WEEKLY"}
        /\ reminders[last'.sid].status \in {"ACTIVE", "SENT"}
        /\ reminders[last'.sid].is_enabled
        /\ ~is_expired(reminders[last'.sid], now)
        /\ ~MaxReached(reminders[last'.sid])
        /\ \A t \in rtasks : t.id # last'.sid
        /\ \A j \in JobsOfReminder(rjobs, last'.sid) :
              now - j.next_run_time <= misfire_grace_time)
       => last'.op = "fire_send"
      ]_vars

\* C24: each scheduler holds at most one pending job per job id, so a job
\* scheduled under an id that has a pending job takes that job's place
C24_OneJobPerId ==
    /\ \A a, b \in jobs : JobId(a) = JobId(b) => a = b
    /\ \A a, b \in rjobs : a.id = b.id => a = b

\* the scheduler was started over an interval reminder whose job had run
\* once and was pending for its next time: the job is back at the
\* reminder's start, the only one under its id
C24_Witness ==
    /\ last.op = "scheduler_start"
    /\ \E i \in 1..Len(reminders) :
          /\ HasSuccessor(reminders[i])
          /\ reminders[i].status = "ACTIVE"
          /\ reminders[i].sent_count = 0
          /\ Dispatched(i) = 1
          /\ \E j \in rjobs : j.id = i /\ j.next_run_time = now
          /\ Cardinality(JobsOfReminder(rjobs, i)) = 1

\* C25: a job whose fire time passed by more than the grace window while
\* the process was down still fires after the restart: when the scheduler
\* submits it for an active reminder, the reminder is dispatched
C25_MissedJobStillFires ==
    [][(/\ Fired(last'.op)
        /\ is_active(reminders[last'.sid])
        /\ \A t \in rtasks : t.id # last'.sid
        /\ \E j \in JobsOfReminder(rjobs, last'.sid) :
              now - j.next_run_time > misfire_grace_time)
       => last'.op = "fire_send"
      ]_vars

\* C26: after the process is started again every ACTIVE session has a
\* pending completion job, and an ACTIVE focus session has its progress
\* pings for the marks still ahead
C26_RestartReschedules ==
    [][last'.op = "restart" =>
         \A i \in 1..Len(sessions') :
            sessions'[i].status = "ACTIVE" =>
               /\ \E j \in jobs' :
                     /\ j.kind \in {"focus_complete", "break_complete"}
                     /\ j.user = sessions'[i].user_id
                     /\ j.sid = i
               /\ sessions'[i].session_type = "FOCUS" =>
                     \A m \in ProgressMarks(sessions'[i].planned_duration) :
                        sessions'[i].actual_start + m > now' =>
                           \E j \in jobs' : /\ j.kind = "progress"
                                            /\ j.sid = i
                                            /\ j.i = m
      ]_vars

\* C27: after the scheduler has started, every stored reminder that is
\* ACTIVE and enabled has a pending job, also one whose scheduled_time is
\* still ahead
C27_StartupSchedulesEveryActive ==
    [][last'.op \in {"scheduler_start", "scheduler_start_after"} =>
         \A i \in 1..Len(reminders') :
            is_active(reminders'[i]) => JobsOfReminder(rjobs', i) # {}
      ]_vars

\* C28: after startup recovery the cache has an entry for exactly the users
\* with a stored ACTIVE or PAUSED session, and each entry holds the id, the
\* start time and the planned duration of such a session of its user,
\* however many sessions are stored
C28_RestoreExactlyLiveUsers ==
    [][last'.op = "restart" =>
         LET live == {i \in 1..Len(sessions') :
                         sessions'[i].status \in {"ACTIVE", "PAUSED"}}
         IN /\ DOMAIN active_sessions' = {sessions'[i].user_id : i \in live}
            /\ \A u \in DOMAIN active_sessions' :
                  LET e == active_sessions'[u]
                  IN /\ e.session_id \in live
                     /\ sessions'[e.session_id].user_id = u
                     /\ e.start_time = sessions'[e.session_id].actual_start
                     /\ e.duration_minutes =
                           sessions'[e.session_id].planned_duration
      ]_vars

\* C29: an exception raised inside one job's callback is contained: after
\* a progress ping or a reminder send that ended in an exception, every
\* other job that was pending is still pending with the run time it had
C29_CallbackExceptionContained ==
    [][last'.op \in {"progress_error", "send_error"} =>
         /\ jobs \subseteq jobs'
         /\ rjobs \subseteq rjobs'
      ]_vars

\* C30: cancelling a job id that has no pending job is a no-op and no error:
\* a pause or cancel request whose completion job is not pending still
\* succeeds, removes nothing but the progress pings of its own session,
\* and changes no record but its own session's; a sweep of expired
\* reminders that have no job leaves the job store as it was
C30_CancelAbsentJobIsNoOp ==
    [][/\ (/\ last'.op \in {"pause", "cancel"}
           /\ \A j \in jobs :
                 JobId(j) # <<"focus_complete", last'.user, last'.sid, 0>>)
          => /\ jobs' = _remove_progress_notifications(jobs, last'.user,
                                                       last'.sid)
             /\ sessions' = IF last'.op = "pause"
                            THEN crud_pause_session(sessions, last'.sid, now)
                            ELSE crud_cancel_session(sessions, last'.sid, now)
             /\ tasks' = tasks
             /\ rjobs' = rjobs
             /\ reminders' = reminders
       /\ (/\ last'.op = "cleanup"
           /\ \A i \in get_expired_reminders(reminders, now) :
                 JobsOfReminder(rjobs, i) = {})
          => /\ rjobs' = rjobs
             /\ jobs' = jobs
             /\ \A i \in 1..Len(reminders) :
                   i \notin get_expired_reminders(reminders, now) =>
                      reminders'[i] = reminders[i]
      ]_vars

\* a session was cancelled whose id had no completion job pending, and the
\* job that was pending under another id is still there
C30_Witness ==
    /\ last.op = "cancel"
    /\ sessions[last.sid].status = "CANCELLED"
    /\ \E j \in jobs : /\ j.kind = "break_complete"
                       /\ j.user = last.user
                       /\ j.sid = last.sid

\* C31: the transitions of one user's session are serialized: while a
\* timer-driven completion of the user is suspended on a notifier call, no
\* start, pause, resume or cancel of that user takes effect
C31_TransitionsSerialized ==
    [][(\E t \in tasks : /\ t.user = last'.user
                         /\ t.kind \in {"focus", "break"})
       => last'.op \notin {"start", "pause", "resume", "cancel"}
      ]_vars

\* C32: a start for a user with no ACTIVE or PAUSED session stores a session
\* that is ACTIVE with actual_start recorded, leaves exactly one completion
\* job for it pending at start time plus duration, and schedules a progress
\* ping at every 5-minute multiple strictly before the duration and none at
\* or after it
C32_StartSchedules ==
    [][last'.op = "start" =>
         LET sid == last'.sid
             u == last'.user
             row == sessions'[sid]
             d == row.planned_duration
             done == {j \in jobs' : /\ j.kind \in {"focus_complete",
                                                  "break_complete"}
                                    /\ j.sid = sid}
             pings == {j \in jobs' : j.kind = "progress" /\ j.sid = sid}
         IN /\ get_active_session(sessions, u) = 0
            /\ sid = Len(sessions) + 1
            /\ row.user_id = u
            /\ row.status = "ACTIVE"
            /\ row.actual_start = now
            /\ done = {Job("focus_complete", u, sid, 0, now + d, 0)}
            /\ {j.run_date - now : j \in pings} =
                  {m \in 1..(d - 1) : m % 5 = 0}
            /\ Cardinality(pings) = Cardinality({m \in 1..(d - 1) : m % 5 = 0})
            /\ \A j \in pings : j.user = u /\ j.run_date < now + d
      ]_vars

\* a 10-minute session was just started: its completion job is due in 10
\* minutes and its one ping in 5
C32_Witness ==
    /\ last.op = "start"
    /\ sessions[last.sid].planned_duration = 10
    /\ \E j \in jobs : /\ j.kind = "focus_complete" /\ j.sid = last.sid
                       /\ j.run_date = now + 10
    /\ {j.run_date : j \in {x \in jobs : x.kind = "progress"
                                          /\ x.sid = last.sid}} = {now + 5}

\* C33: a pause of a session that is not ACTIVE and a resume of a session
\* that is not PAUSED change nothing: whenever the session a user's cache
\* entry refers to is not ACTIVE (not PAUSED), or the user has no entry, no
\* step is a pause (a resume) of that user that alters the session record,
\* the cache or the pending jobs
C33_PauseResumeOnlyFromTheirStates ==
    [][\A u \in Users :
          LET sid == IF InCache(active_sessions, u)
                     THEN active_sessions[u].session_id ELSE 0
              status == IF sid = 0 THEN "none" ELSE sessions[sid].status
          IN /\ (status # "ACTIVE" /\ last'.op = "pause" /\ last'.user = u)
                => UNCHANGED <<sessions, active_sessions, jobs>>
             /\ (status # "PAUSED" /\ last'.op = "resume" /\ last'.user = u)
                => UNCHANGED <<sessions, active_sessions, jobs>>
      ]_vars

\* the user's session has just been paused and time has passed: a further
\* pause now finds a session that is not ACTIVE
C33_Witness ==
    /\ InCache(active_sessions, 1)
    /\ sessions[active_sessions[1].session_id].status = "PAUSED"
    /\ sessions[active_sessions[1].session_id].last_pause_start < now
    /\ jobs = {}

\* C34: a completion, requested by the user or fired by the timer, of a
\* session that is ACTIVE or PAUSED leaves it COMPLETED with
\* completion_rate = min(100, actual_duration * 100 / planned_duration):
\* never above 100 and exactly 100 when actual_duration is at least
\* planned_duration
C34_CompleteSetsRate ==
    [][\A u \in Users :
          LET sid == IF InCache(active_sessions, u)
                     THEN active_sessions[u].session_id ELSE 0
              live == sid # 0 /\ sessions[sid].status \in {"ACTIVE", "PAUSED"}
              rate == calculate_completion_rate(sessions'[sid])
          IN (/\ live
              /\ last'.user = u
              /\ last'.op \in {"complete_request", "run_focus_complete",
                               "run_break_complete"})
             => /\ sessions'[sid].status = "COMPLETED"
                /\ sessions'[sid].actual_duration =
                      now - sessions[sid].actual_start
                /\ rate.num <= 100 * rate.den
                /\ sessions'[sid].actual_duration
                      >= sessions'[sid].planned_duration
                   => rate.num = 100 * rate.den
                /\ sessions'[sid].actual_duration
                      < sessions'[sid].planned_duration
                   => rate.num * sessions'[sid].planned_duration =
                         100 * sessions'[sid].actual_duration * rate.den
      ]_vars

\* C35: enable and disable change the enabled flag of their reminder and
\* nothing else; a fire on a disabled reminder dispatches nothing and
\* leaves sent_count (and the whole record) as it was, and the periodic
\* sweep dispatches no disabled reminder either
C35_ToggleOnlyFlag ==
    [][/\ last'.op \in {"enable", "disable"} =>
            /\ reminders' =
                  [reminders EXCEPT ![last'.sid].is_enabled =
                                        (last'.op = "enable")]
            /\ UNCHANGED <<rjobs, rtasks, outbox>>
       /\ (Fired(last'.op) /\ ~reminders[last'.sid].is_enabled) =>
            /\ last'.op = "fire_skip"
            /\ UNCHANGED <<reminders, rtasks, outbox>>
       /\ last'.op = "check_due" =>
            \A i \in 1..Len(reminders) :
               ~reminders[i].is_enabled =>
                  /\ reminders'[i] = reminders[i]
                  /\ Dispatched(i)' = Dispatched(i)
      ]_vars

\* a job has fired on a reminder that is ACTIVE and switched off, and
\* nothing was sent
C35_Witness ==
    /\ last.op = "fire_skip"
    /\ reminders[last.sid].status = "ACTIVE"
    /\ ~reminders[last.sid].is_enabled
    /\ reminders[last.sid].sent_count = 0
    /\ Dispatched(last.sid) = 0

\* C36: whenever no callback is in progress, a user has an entry in the
\* active-session cache if and only if storage holds an ACTIVE or PAUSED
\* session of that user, and the entry's session id is that session's id
C36_CacheMatchesStorage ==
    tasks = {} =>
       \A u \in Users :
          LET live == {i \in 1..Len(sessions) :
                          /\ sessions[i].user_id = u
                          /\ sessions[i].status \in {"ACTIVE", "PAUSED"}}
          IN /\ InCache(active_sessions, u) <=> live # {}
             /\ InCache(active_sessions, u) =>
                   active_sessions[u].session_id \in live

\* C37: whenever a session is ACTIVE in storage a completion job for that
\* session is pending: no session is left ACTIVE without a job that can
\* end it
C37_ActiveHasCompletionJob ==
    \A i \in 1..Len(sessions) :
       sessions[i].status = "ACTIVE" =>
          \E j \in jobs : /\ j.kind \in {"focus_complete", "break_complete"}
                          /\ j.user = sessions[i].user_id
                          /\ j.sid = i

\* C38: the purge of one user's jobs after a delivery failure removes only
\* jobs of that user: every pending job of every other user is still
\* pending afterwards
C38_PurgeKeepsOtherUsers ==
    [][last'.op \in {"progress_blocked", "progress_error"} =>
         \A j \in jobs : j.user # last'.user => j \in jobs'
      ]_vars

\* C39: a completion job scheduled for session S changes the status of no
\* session other than S
C39_CompletionJobOwnSession ==
    [][last'.op \in {"run_focus_complete", "run_break_complete"} =>
         \A i \in 1..Len(sessions) :
            i # last'.sid => sessions'[i].status = sessions[i].status
      ]_vars

\* C40: a one-time reminder is handed to the notifier at most once and its
\* sent_count never exceeds 1, also when the periodic sweep of due
\* reminders and the scheduler job of the reminder run at the same time
C40_OneShotAtMostOnce ==
    \A i \in 1..Len(reminders) :
       ~reminders[i].is_recurring =>
          /\ Dispatched(i) <= 1
          /\ reminders[i].sent_count <= 1

====
